---- MODULE Spec2Model ----
(***************************************************************************)
(* wandbmon: the Monitor of src/wandbmon/sdk/monitor.py.                   *)
(*                                                                         *)
(* A Monitor wraps a callable.  Caller threads invoke it (__call__), may   *)
(* commit records by hand (commit), toggle transmission (enable, disable)  *)
(* and shut it down (finish).  One worker thread (_thread_body) creates    *)
(* the first run and then polls: on every wake-up it commits, and after    *)
(* the wake-up that saw the join event it closes the run and ends.         *)
(*                                                                         *)
(* Time is the age of last_saved_timestamp in seconds, saturated at        *)
(* MAX_UNSAVED_SECONDS (the only thing the code compares it with).  The    *)
(* worker's timed wait may end at any moment: a wake-up earlier than the   *)
(* real timeout either returns at the guard of commit or does what the     *)
(* timely wake-up of a slower schedule does.                               *)
(***************************************************************************)
EXTENDS Integers, Sequences, FiniteSets

\* ------------------------------------------------------------- bounds
MaxCalls == 3        \* invocations of the wrapped callable
MaxCommits == 1      \* manual commit() calls
MaxToggles == 1      \* enable()/disable() calls
MaxFinish == 2       \* finish() calls (explicit, or from the exit hook)
ManualCommits == 2   \* commit() calls of a session that commits by hand

\* ---------------------------------------------------------- constants
MAX_UNSAVED_COUNT == 2
MAX_UNSAVED_SECONDS == 5
RotationThreshold == 10      \* test_run_rotation: Monitor.MAX_LOGGED_COUNT = 10
RotationCalls == 15          \* test_run_rotation: range(15)

Callers == {"c1"}
Worker == "worker"
Threads == Callers \cup {Worker}
None == 0
Free == "free"
NoModel == "none"
GoodModel == "my-model"
BadModel == "not-wandb-model"
Thresholds == {1, 2}      \* the values MAX_LOGGED_COUNT is set to, as the test sets it
NoOp == [record |-> None, force |-> FALSE, before |-> {}, started |-> FALSE, raised |-> FALSE]

VARIABLES
    api_key,            \* wandb.Api().api_key is not None, at construction
    auto_commit,        \* self.auto_commit
    model_name,         \* self.config.get("model_name")
    MAX_LOGGED_COUNT,   \* the class attribute, set before construction
    disabled,           \* self.disabled
    queue,              \* self.queue, oldest first
    logged_count,       \* self.logged_count
    since_saved,        \* now - self.last_saved_timestamp, saturated
    run,                \* self.run: a run id, or None
    lock,               \* self._lock: the holder, or Free
    join_event,         \* self._join_event
    join_requested,     \* the worker's local
    pc,                 \* where each thread is
    op,                 \* each caller's commit call: its arguments and outcome
    last,               \* the record each caller's last invocation returned
    runs,               \* the sink: the runs wandb.init created, in order
    wandb_run,          \* the sink: wandb.run, the active run or None
    logged,             \* the sink: every run.log call, in order
    closeCalls,         \* the sink: wandb.finish() calls
    calls,              \* invocations so far; record ids are 1..calls
    commits,            \* manual commit() calls so far
    toggles,            \* enable()/disable() calls so far
    finishCalls,        \* finish() calls so far
    finishReturns,      \* finish() calls that returned
    pushedBeforeFinish, \* records put on the queue before finish() was called
    workerRaised        \* an exception left the worker's poll loop

cfgVars == <<api_key, auto_commit, model_name, MAX_LOGGED_COUNT>>
sinkVars == <<runs, wandb_run, logged, closeCalls>>
countVars == <<calls, commits, toggles, finishCalls, finishReturns>>
vars == <<api_key, auto_commit, model_name, MAX_LOGGED_COUNT, disabled, queue,
          logged_count, since_saved, run, lock, join_event, join_requested, pc,
          op, last, runs, wandb_run, logged, closeCalls, calls, commits,
          toggles, finishCalls, finishReturns, pushedBeforeFinish, workerRaised>>

Range(s) == {s[i] : i \in 1..Len(s)}
Min(a, b) == IF a < b THEN a ELSE b

\* ------------------------------------------------------ pure functions

\* The guard with count, time and force combined as one conjunction.
SkipCommit_conjunction(record, force, unsaved_count, since) ==
    record = None /\ ~force /\ unsaved_count < MAX_UNSAVED_COUNT
        /\ since < MAX_UNSAVED_SECONDS

\* commit's guard: TRUE when the call returns without flushing.
SkipCommit(record, force, unsaved_count, since) ==
    (record = None /\ ~force /\ unsaved_count < MAX_UNSAVED_COUNT)
        \/ since < MAX_UNSAVED_SECONDS

\* _maybe_rotate_run's condition.
ShouldRotate(r, count, max) == r # None /\ count > max

\* _init_run without the except clause: the CommError leaves it.
InitRun_uncaught(name) ==
    [attempts |-> IF name # NoModel THEN 1 ELSE 0, raised |-> name = BadModel]

\* _init_run: the use_artifact attempts it makes, and whether it raises.
\* use_artifact fails on a name that is no artifact; the CommError is caught.
InitRun(name) ==
    [attempts |-> IF name # NoModel THEN 1 ELSE 0, raised |-> FALSE]

\* wandb.init: the sink's runs with a new open run at the end.
NewRun(rs, name) == Append(rs, [open |-> TRUE, use_artifact |-> InitRun(name).attempts])

\* wandb.finish(): the active run, if any, is closed.
CloseRun(rs, active) ==
    IF active = None THEN rs ELSE [rs EXCEPT ![active].open = FALSE]

\* A drain that takes two records off the queue for each one it yields.
NextRecord_dropsOne(q) ==
    [record |-> Head(q), rest |-> IF Len(q) > 1 THEN Tail(Tail(q)) ELSE Tail(q)]

\* A drain that hands out the newest record first.
NextRecord_lifo(q) == [record |-> q[Len(q)], rest |-> SubSeq(q, 1, Len(q) - 1)]

\* _iterate_records: the record get_nowait hands out, and what stays queued.
NextRecord(q) == [record |-> Head(q), rest |-> Tail(q)]

\* ----------------------------------------------------------------- Init

InitCommon ==
    /\ disabled = ~api_key
    /\ queue = <<>>
    /\ logged_count = 0
    /\ since_saved = Min(2 * MAX_UNSAVED_SECONDS, MAX_UNSAVED_SECONDS)
    /\ run = None
    /\ lock = Free
    /\ join_event = FALSE
    /\ join_requested = FALSE
    /\ pc = [t \in Threads |-> IF t = Worker THEN "start" ELSE "idle"]
    /\ op = [c \in Callers |-> NoOp]
    /\ last = [c \in Callers |-> None]
    /\ runs = <<>>
    /\ wandb_run = None
    /\ logged = <<>>
    /\ closeCalls = 0
    /\ calls = 0
    /\ commits = 0
    /\ toggles = 0
    /\ finishCalls = 0
    /\ finishReturns = 0
    /\ pushedBeforeFinish = {}
    /\ workerRaised = FALSE

Init ==
    /\ api_key \in BOOLEAN
    /\ auto_commit \in BOOLEAN
    /\ model_name \in {NoModel, GoodModel, BadModel}
    /\ MAX_LOGGED_COUNT \in Thresholds
    /\ InitCommon

\* -------------------------------------------------------------- helpers

\* queue.put
Put(r) ==
    /\ queue' = Append(queue, r)
    /\ pushedBeforeFinish' =
         IF join_event THEN pushedBeforeFinish ELSE pushedBeforeFinish \cup {r}

\* Where the worker goes when its commit has returned: the loop test.
WorkerLoop(jr) == IF jr THEN "finally" ELSE "wait"

\* commit returns (or raises) in thread t.
Return(t, raised) ==
    IF t = Worker
    THEN /\ pc' = [pc EXCEPT ![t] = IF raised THEN "finally" ELSE WorkerLoop(join_requested)]
         /\ workerRaised' = (workerRaised \/ raised)
         /\ op' = op
    ELSE /\ pc' = [pc EXCEPT ![t] = "ret"]
         /\ op' = [op EXCEPT ![t].raised = raised]
         /\ workerRaised' = workerRaised

\* ----------------------------------------------------------- the callers

\* __call__: the record is created; it is queued unless disabled or manual.
CallUpTo(c, n) ==
    /\ pc[c] = "idle"
    /\ calls < n
    /\ calls' = calls + 1
    /\ last' = [last EXCEPT ![c] = calls + 1]
    /\ IF ~disabled /\ auto_commit
       THEN Put(calls + 1)
       ELSE UNCHANGED <<queue, pushedBeforeFinish>>
    /\ UNCHANGED <<cfgVars, sinkVars, disabled, logged_count, since_saved, run, lock,
                   join_event, join_requested, pc, op, commits, toggles,
                   finishCalls, finishReturns, workerRaised>>

Call(c) == CallUpTo(c, MaxCalls)

\* commit(record, force) up to the lock: the guard, then the put.
CommitUpTo(c, record, force, n) ==
    /\ pc[c] = "idle"
    /\ commits < n
    /\ record \in {None, last[c]}
    /\ commits' = commits + 1
    /\ LET skip == SkipCommit(record, force, Len(queue), since_saved)
           call == [record |-> record, force |-> force, before |-> Range(queue),
                    started |-> pc[Worker] \in {"wait", "lock", "drain"},
                    raised |-> FALSE]
       IN  /\ op' = [op EXCEPT ![c] = call]
           /\ IF ~skip /\ record # None
              THEN Put(record)
              ELSE UNCHANGED <<queue, pushedBeforeFinish>>
           /\ pc' = [pc EXCEPT ![c] =
                        IF skip \/ (record # None /\ ~force) THEN "ret" ELSE "lock"]
    /\ UNCHANGED <<cfgVars, sinkVars, disabled, logged_count, since_saved, run, lock,
                   join_event, join_requested, last, calls, toggles,
                   finishCalls, finishReturns, workerRaised>>

CommitEnter(c, record, force) == CommitUpTo(c, record, force, MaxCommits)

\* The caller goes on after commit.
CommitReturn(c) ==
    /\ pc[c] = "ret"
    /\ pc' = [pc EXCEPT ![c] = "idle"]
    /\ op' = [op EXCEPT ![c] = NoOp]
    /\ UNCHANGED <<cfgVars, sinkVars, countVars, disabled, queue, logged_count,
                   since_saved, run, lock, join_event, join_requested, last,
                   pushedBeforeFinish, workerRaised>>

\* disable()
Disable(c) ==
    /\ pc[c] = "idle"
    /\ toggles < MaxToggles
    /\ ~disabled
    /\ disabled' = TRUE
    /\ toggles' = toggles + 1
    /\ UNCHANGED <<cfgVars, sinkVars, queue, logged_count, since_saved, run, lock,
                   join_event, join_requested, pc, op, last, calls, commits,
                   finishCalls, finishReturns, pushedBeforeFinish, workerRaised>>

\* enable()
Enable(c) ==
    /\ pc[c] = "idle"
    /\ toggles < MaxToggles
    /\ disabled
    /\ disabled' = FALSE
    /\ toggles' = toggles + 1
    /\ UNCHANGED <<cfgVars, sinkVars, queue, logged_count, since_saved, run, lock,
                   join_event, join_requested, pc, op, last, calls, commits,
                   finishCalls, finishReturns, pushedBeforeFinish, workerRaised>>

\* finish(): self._join_event.set()
FinishSet(c) ==
    /\ pc[c] = "idle"
    /\ finishCalls < MaxFinish
    /\ finishCalls' = finishCalls + 1
    /\ join_event' = TRUE
    /\ pc' = [pc EXCEPT ![c] = "join"]
    /\ UNCHANGED <<cfgVars, sinkVars, disabled, queue, logged_count, since_saved, run,
                   lock, join_requested, op, last, calls, commits, toggles,
                   finishReturns, pushedBeforeFinish, workerRaised>>

\* A finish() that closes the run itself once the worker has been joined.
FinishJoin_closes(c) ==
    /\ pc[c] = "join"
    /\ pc[Worker] = "done"
    /\ pc' = [pc EXCEPT ![c] = "idle"]
    /\ finishReturns' = finishReturns + 1
    /\ closeCalls' = closeCalls + 1
    /\ runs' = CloseRun(runs, wandb_run)
    /\ wandb_run' = None
    /\ UNCHANGED <<cfgVars, logged, disabled, queue, logged_count, since_saved, run,
                   lock, join_event, join_requested, op, last, calls, commits,
                   toggles, finishCalls, pushedBeforeFinish, workerRaised>>

\* finish(): self._thread.join() returns once the worker has ended.
FinishJoin(c) ==
    /\ pc[c] = "join"
    /\ pc[Worker] = "done"
    /\ pc' = [pc EXCEPT ![c] = "idle"]
    /\ finishReturns' = finishReturns + 1
    /\ UNCHANGED <<cfgVars, sinkVars, disabled, queue, logged_count, since_saved, run,
                   lock, join_event, join_requested, op, last, calls, commits,
                   toggles, finishCalls, pushedBeforeFinish, workerRaised>>

\* ------------------------------------------- the flush critical section

\* A critical section entered without waiting for the lock.
Acquire_noWait(t) ==
    /\ pc[t] = "lock"
    /\ lock' = t
    /\ pc' = [pc EXCEPT ![t] = "drain"]
    /\ UNCHANGED <<cfgVars, sinkVars, countVars, disabled, queue, logged_count,
                   since_saved, run, join_event, join_requested, op, last,
                   pushedBeforeFinish, workerRaised>>

\* with self._lock:
Acquire(t) ==
    /\ pc[t] = "lock"
    /\ lock = Free
    /\ lock' = t
    /\ pc' = [pc EXCEPT ![t] = "drain"]
    /\ UNCHANGED <<cfgVars, sinkVars, countVars, disabled, queue, logged_count,
                   since_saved, run, join_event, join_requested, op, last,
                   pushedBeforeFinish, workerRaised>>

\* One turn of the loop over _iterate_records: get_nowait, run.log, count.
\* With no run, self.run.log raises: the record is gone, the lock released.
LogOne(t) ==
    /\ pc[t] = "drain"
    /\ queue # <<>>
    /\ queue' = NextRecord(queue).rest
    /\ IF run = None
       THEN /\ lock' = Free
            /\ Return(t, TRUE)
            /\ UNCHANGED <<logged, logged_count>>
       ELSE /\ logged' = Append(logged, [record |-> NextRecord(queue).record, run |-> run])
            /\ logged_count' = logged_count + 1
            /\ UNCHANGED <<lock, pc, op, workerRaised>>
    /\ UNCHANGED <<cfgVars, countVars, runs, wandb_run, closeCalls, disabled,
                   since_saved, run, join_event, join_requested, last,
                   pushedBeforeFinish>>

\* The queue is empty: last_saved_timestamp, _maybe_rotate_run, the lock is
\* released and commit returns.  A rotation closes the active run and makes
\* a new one; self.run and self.logged_count stay as they are.
EndFlush(t) ==
    /\ pc[t] = "drain"
    /\ queue = <<>>
    /\ since_saved' = 0
    /\ lock' = Free
    /\ IF ShouldRotate(run, logged_count, MAX_LOGGED_COUNT)
       THEN /\ runs' = NewRun(CloseRun(runs, wandb_run), model_name)
            /\ wandb_run' = Len(runs) + 1
            /\ closeCalls' = closeCalls + 1
            /\ Return(t, InitRun(model_name).raised)
       ELSE /\ UNCHANGED <<runs, wandb_run, closeCalls>>
            /\ Return(t, FALSE)
    /\ UNCHANGED <<cfgVars, countVars, logged, disabled, queue, logged_count, run,
                   join_event, join_requested, last, pushedBeforeFinish>>

\* ------------------------------------------------------------ the worker

\* _thread_body: with self._lock: self._ensure_run()
WorkerStart ==
    /\ pc[Worker] = "start"
    /\ lock = Free
    /\ IF run = None
       THEN /\ runs' = NewRun(runs, model_name)
            /\ wandb_run' = Len(runs) + 1
            /\ IF InitRun(model_name).raised
               THEN /\ pc' = [pc EXCEPT ![Worker] = "finally"]
                    /\ workerRaised' = TRUE
                    /\ run' = run
               ELSE /\ pc' = [pc EXCEPT ![Worker] = "wait"]
                    /\ workerRaised' = workerRaised
                    /\ run' = Len(runs) + 1
       ELSE /\ pc' = [pc EXCEPT ![Worker] = "wait"]
            /\ UNCHANGED <<runs, wandb_run, run, workerRaised>>
    /\ UNCHANGED <<cfgVars, countVars, logged, closeCalls, disabled, queue,
                   logged_count, since_saved, lock, join_event, join_requested,
                   op, last, pushedBeforeFinish>>

\* The wait ends (the event is set, or the timeout passed) and, unless
\* disabled, commit(force=join_requested) runs up to the lock.
WorkerWake ==
    /\ pc[Worker] = "wait"
    /\ join_requested' = join_event
    /\ pc' = [pc EXCEPT ![Worker] =
                 IF disabled \/ SkipCommit(None, join_event, Len(queue), since_saved)
                 THEN WorkerLoop(join_event)
                 ELSE "lock"]
    /\ UNCHANGED <<cfgVars, sinkVars, countVars, disabled, queue, logged_count,
                   since_saved, run, lock, join_event, op, last,
                   pushedBeforeFinish, workerRaised>>

\* A worker that ends without the finally clause.
WorkerFinally_noClose ==
    /\ pc[Worker] = "finally"
    /\ pc' = [pc EXCEPT ![Worker] = "done"]
    /\ UNCHANGED <<cfgVars, sinkVars, countVars, disabled, queue, logged_count,
                   since_saved, run, lock, join_event, join_requested, op, last,
                   pushedBeforeFinish, workerRaised>>

\* finally: wandb.finish(), and the thread ends.
WorkerFinally ==
    /\ pc[Worker] = "finally"
    /\ runs' = CloseRun(runs, wandb_run)
    /\ wandb_run' = None
    /\ closeCalls' = closeCalls + 1
    /\ pc' = [pc EXCEPT ![Worker] = "done"]
    /\ UNCHANGED <<cfgVars, countVars, logged, disabled, queue, logged_count,
                   since_saved, run, lock, join_event, join_requested, op, last,
                   pushedBeforeFinish, workerRaised>>

\* Time passes: the last flush is now MAX_UNSAVED_SECONDS old.  (A shorter
\* step changes nothing the guard of commit reads.)
Tick ==
    /\ since_saved < MAX_UNSAVED_SECONDS
    /\ since_saved' = MAX_UNSAVED_SECONDS
    /\ UNCHANGED <<cfgVars, sinkVars, countVars, disabled, queue, logged_count, run,
                   lock, join_event, join_requested, pc, op, last,
                   pushedBeforeFinish, workerRaised>>

Next ==
    \/ \E c \in Callers : Call(c)
    \/ \E c \in Callers, force \in BOOLEAN : \E record \in {None, last[c]} :
          CommitEnter(c, record, force)
    \/ \E c \in Callers : CommitReturn(c)
    \/ \E c \in Callers : Disable(c)
    \/ \E c \in Callers : Enable(c)
    \/ \E c \in Callers : FinishSet(c)
    \/ \E c \in Callers : FinishJoin(c)
    \/ \E t \in Threads : Acquire(t)
    \/ \E t \in Threads : LogOne(t)
    \/ \E t \in Threads : EndFlush(t)
    \/ WorkerStart
    \/ WorkerWake
    \/ WorkerFinally
    \/ Tick

Spec == Init /\ [][Next]_vars

\* ------------------------------------------------- test_run_rotation
\* MAX_LOGGED_COUNT = 10, default settings, one thread that invokes the
\* callable up to 15 times and then calls finish().

InitRotation ==
    /\ api_key = TRUE
    /\ auto_commit = TRUE
    /\ model_name = NoModel
    /\ MAX_LOGGED_COUNT = RotationThreshold
    /\ InitCommon

RotationCall(c) == finishCalls = 0 /\ CallUpTo(c, RotationCalls)

NextRotation ==
    \/ \E c \in Callers : RotationCall(c)
    \/ \E c \in Callers : FinishSet(c)
    \/ \E c \in Callers : FinishJoin(c)
    \/ \E t \in Threads : Acquire(t)
    \/ \E t \in Threads : LogOne(t)
    \/ \E t \in Threads : EndFlush(t)
    \/ WorkerStart
    \/ WorkerWake
    \/ WorkerFinally
    \/ Tick

SpecRotation == InitRotation /\ [][NextRotation]_vars

\* ------------------------------------------------ committing by hand
\* examples/advanced.py: monitor(commit=False), the caller commits each
\* record itself.

InitManual ==
    /\ api_key = TRUE
    /\ auto_commit = FALSE
    /\ model_name = NoModel
    /\ MAX_LOGGED_COUNT \in Thresholds
    /\ InitCommon

ManualCommit(c, record, force) == CommitUpTo(c, record, force, ManualCommits)

NextManual ==
    \/ \E c \in Callers : Call(c)
    \/ \E c \in Callers, force \in BOOLEAN : \E record \in {None, last[c]} :
          ManualCommit(c, record, force)
    \/ \E c \in Callers : CommitReturn(c)
    \/ \E c \in Callers : FinishSet(c)
    \/ \E c \in Callers : FinishJoin(c)
    \/ \E t \in Threads : Acquire(t)
    \/ \E t \in Threads : LogOne(t)
    \/ \E t \in Threads : EndFlush(t)
    \/ WorkerStart
    \/ WorkerWake
    \/ WorkerFinally
    \/ Tick

SpecManual == InitManual /\ [][NextManual]_vars

\* ------------------------------------------------------ a failing sink
\* run.log, wandb.init and the user's transforms may raise.  commit has no
\* handler: the exception leaves the loop over _iterate_records with the
\* record already taken off the queue, the `with` releases the lock, and in
\* the worker the exception leaves the poll loop for the finally clause.

RaiseInLoop(t) ==
    /\ pc[t] = "drain"
    /\ queue # <<>>
    /\ run # None
    /\ queue' = NextRecord(queue).rest
    /\ lock' = Free
    /\ Return(t, TRUE)
    /\ UNCHANGED <<cfgVars, sinkVars, countVars, disabled, logged_count,
                   since_saved, run, join_event, join_requested, last,
                   pushedBeforeFinish>>

\* self.run.log(...) raises.
LogFails(t) == RaiseInLoop(t)

\* r.as_dict() raises in the input or output transform.
TransformFails(t) == RaiseInLoop(t)

\* wandb.init raises in the worker's _ensure_run.
InitFails ==
    /\ pc[Worker] = "start"
    /\ lock = Free
    /\ run = None
    /\ pc' = [pc EXCEPT ![Worker] = "finally"]
    /\ workerRaised' = TRUE
    /\ UNCHANGED <<cfgVars, sinkVars, countVars, disabled, queue, logged_count,
                   since_saved, run, lock, join_event, join_requested, op, last,
                   pushedBeforeFinish>>

InitFaulty ==
    /\ api_key \in BOOLEAN
    /\ auto_commit \in BOOLEAN
    /\ model_name = NoModel
    /\ MAX_LOGGED_COUNT \in Thresholds
    /\ InitCommon

NextSinkFault ==
    \/ Next
    \/ \E t \in Threads : LogFails(t)

SpecSinkFault == InitFaulty /\ [][NextSinkFault]_vars

NextTransform ==
    \/ Next
    \/ \E t \in Threads : TransformFails(t)

SpecTransform == InitFaulty /\ [][NextTransform]_vars

\* Shutdown with a failing sink, every thread scheduled fairly: a step of
\* the worker or of a thread inside commit that stays possible is taken.
\* The session is auto-committing and enable()/disable() are not called.
Fairness ==
    /\ WF_vars(WorkerStart)
    /\ WF_vars(WorkerWake)
    /\ WF_vars(WorkerFinally)
    /\ \A t \in Threads : WF_vars(Acquire(t))
    /\ \A t \in Threads : WF_vars(LogOne(t))
    /\ \A t \in Threads : WF_vars(EndFlush(t))
    /\ \A c \in Callers : WF_vars(FinishJoin(c))

InitShutdown ==
    /\ api_key \in BOOLEAN
    /\ auto_commit = TRUE
    /\ model_name = NoModel
    /\ MAX_LOGGED_COUNT \in Thresholds
    /\ InitCommon

NextShutdown ==
    \/ \E c \in Callers : Call(c)
    \/ \E c \in Callers, force \in BOOLEAN : \E record \in {None, last[c]} :
          CommitEnter(c, record, force)
    \/ \E c \in Callers : CommitReturn(c)
    \/ \E c \in Callers : FinishSet(c)
    \/ \E c \in Callers : FinishJoin(c)
    \/ \E t \in Threads : Acquire(t)
    \/ \E t \in Threads : LogOne(t)
    \/ \E t \in Threads : EndFlush(t)
    \/ \E t \in Threads : LogFails(t)
    \/ WorkerStart
    \/ InitFails
    \/ WorkerWake
    \/ WorkerFinally
    \/ Tick

SpecShutdown == InitShutdown /\ [][NextShutdown]_vars /\ Fairness

\* ------------------------------------------------------------ properties

LoggedSet == {logged[i].record : i \in 1..Len(logged)}
LogsTo(r) == Cardinality({i \in 1..Len(logged) : logged[i].run = r})
Ceil(n, t) == (n + t - 1) \div t
NeverDisabled == api_key /\ toggles = 0
AlwaysDisabled == ~api_key /\ toggles = 0
\* Enabled throughout, every invocation queued by __call__ alone.
AutoOnly == NeverDisabled /\ auto_commit /\ commits = 0
WorkerDone == pc[Worker] = "done"

\* C1: for a session never disabled, once finish() has returned every record
\* put on the queue before finish() was called has been logged.  (Stated for
\* records queued by auto-committed calls; the claim covers manual commits too.)
C1_ShutdownDrains ==
    (finishReturns >= 1 /\ AutoOnly) => pushedBeforeFinish \subseteq LoggedSet

\* C2: with auto-committed calls only, on a session enabled throughout, once
\* the worker has made its last commit and ended, the records logged and the
\* records still queued are exactly the records of the calls, each once.
C2_Conservation ==
    (WorkerDone /\ AutoOnly) =>
        /\ Len(logged) + Len(queue) = calls
        /\ LoggedSet \cup Range(queue) = 1..calls

C2_Witness ==
    /\ WorkerDone /\ AutoOnly
    /\ calls = 3 /\ Len(logged) = 2 /\ Len(queue) = 1

\* C3: N >= 1 auto-committed calls, all before finish(), then finish(): when
\* the worker has ended and nothing is left queued, ceil(N / MAX_LOGGED_COUNT)
\* runs have been created.
C3_RotationCount ==
    (WorkerDone /\ AutoOnly /\ calls >= 1 /\ pushedBeforeFinish = 1..calls
        /\ queue = <<>>) =>
        Len(runs) = Ceil(calls, MAX_LOGGED_COUNT)

\* C4: MAX_LOGGED_COUNT = 10 and 15 calls, then finish(): when the worker has
\* ended and nothing is left queued there are two runs, with ten log calls on
\* the first and five on the second.
C4_PerRunDistribution ==
    (WorkerDone /\ AutoOnly /\ MAX_LOGGED_COUNT = RotationThreshold
        /\ calls = RotationCalls /\ pushedBeforeFinish = 1..calls
        /\ queue = <<>>) =>
        /\ Len(runs) = 2
        /\ LogsTo(1) = 10
        /\ LogsTo(2) = 5

\* C5: a session constructed without an API key (and never enabled) makes no
\* call to the sink: no run is created, nothing is logged, no artifact linked.
C5_DisabledNoSink ==
    AlwaysDisabled =>
        /\ Len(runs) = 0
        /\ Len(logged) = 0

\* C6: when commit(record, force=True), called on an enabled session whose
\* worker is polling, has returned, the record and every record that was
\* queued when it was called have been logged.
C6_ForcedCommit ==
    \A c \in Callers :
        (pc[c] = "ret" /\ op[c].force /\ op[c].record # None /\ op[c].started
            /\ NeverDisabled) =>
            /\ ~op[c].raised
            /\ ({op[c].record} \cup op[c].before) \subseteq LoggedSet

\* C7: a commit with force=False and no record that finds the queue empty
\* returns at once: no thread goes on to the flush, and the queue,
\* logged_count, the time of the last flush, the run and the sink stay as
\* they are.
C7_EmptyFlushIsNoOp ==
    [][ /\ \A c \in Callers :
             (queue = <<>> /\ pc[c] = "idle" /\ commits' # commits
                 /\ op'[c].record = None /\ ~op'[c].force) =>
                 /\ pc'[c] = "ret"
                 /\ UNCHANGED <<queue, logged_count, since_saved, run, lock,
                                runs, wandb_run, logged, closeCalls>>
        /\ (queue = <<>> /\ pc[Worker] = "wait" /\ ~join_event) =>
                 pc'[Worker] # "lock"
      ]_vars

C7_Witness ==
    \E c \in Callers :
        /\ pc[c] = "ret" /\ op[c].record = None /\ ~op[c].force
        /\ op[c].before = {} /\ queue = <<>>
        /\ since_saved = MAX_UNSAVED_SECONDS /\ logged_count > 0

\* C8: with a model name that is no artifact, every run created has had
\* exactly one use_artifact attempt, no exception leaves the worker, the run
\* handle is set once the worker has started, and one auto-committed call
\* followed by finish() ends with exactly one log call.
C8_ArtifactFailureSwallowed ==
    model_name = BadModel =>
        /\ \A i \in 1..Len(runs) : runs[i].use_artifact = 1
        /\ ~workerRaised
        /\ (pc[Worker] # "start" => run # None)
        /\ (WorkerDone /\ AutoOnly /\ calls = 1 /\ pushedBeforeFinish = {1}) =>
               Len(logged) = 1

C8_Witness ==
    /\ model_name = BadModel
    /\ WorkerDone /\ AutoOnly /\ calls = 1 /\ pushedBeforeFinish = {1}
    /\ finishReturns = 1 /\ Len(logged) = 1 /\ runs[1].use_artifact = 1

\* C9: a finish() made after the worker has ended and a first finish() has
\* returned changes nothing: no drain, no log call, no close, and the worker
\* stays ended.
C9_IdempotentFinish ==
    [][ (WorkerDone /\ finishReturns >= 1
            /\ (finishCalls' # finishCalls \/ finishReturns' # finishReturns)) =>
            /\ pc'[Worker] = "done"
            /\ UNCHANGED <<queue, logged, runs, wandb_run, closeCalls,
                           logged_count, since_saved, run, lock>>
      ]_vars

C9_Witness == WorkerDone /\ finishCalls = 2 /\ finishReturns = 2

\* C10: while disabled is true no step puts a record on the queue or calls
\* log.
C10_DisabledNoTraffic ==
    [][ disabled => (Len(queue') <= Len(queue) /\ logged' = logged) ]_vars

\* C11: a commit called with force, or with the queue at MAX_UNSAVED_COUNT or
\* more, goes on to the flush.  (The claim's "if" direction for two of its
\* three triggers; the claim also names the time threshold and the converse.)
C11_FlushDecision ==
    [][ \A c \in Callers :
          (pc[c] = "idle" /\ commits' # commits /\ op'[c].record = None
              /\ (op'[c].force \/ Len(queue) >= MAX_UNSAVED_COUNT)) =>
              pc'[c] = "lock"
      ]_vars

\* C13: a rotation (a new run made while a run exists) leaves logged_count 0.
C13_RotationResetsCount ==
    [][ (Len(runs) >= 1 /\ Len(runs') > Len(runs)) => logged_count' = 0 ]_vars

\* C14: the run handle, once set, is the run created last.
C14_HandleIsNewestRun == run # None => run = Len(runs)

\* C15: a thread is in the drain-log-rotate section exactly when it holds the
\* lock, so at most one is; and logged_count, the time of the last flush and
\* the run handle are written only by the holder of the lock (the worker's
\* _ensure_run takes the lock for its one step).
InSection == {t \in Threads : pc[t] = "drain"}
C15_MutualExclusion ==
    [][ /\ Cardinality(InSection') <= 1
        /\ \A t \in Threads : (pc'[t] = "drain") <=> (lock' = t)
        /\ (logged_count' # logged_count \/ since_saved' < since_saved
                \/ logged' # logged) =>
               (lock \in Threads /\ pc[lock] = "drain")
        /\ (run' # run) => (lock = Free /\ pc[Worker] = "start")
      ]_vars

C15_Witness ==
    \E c \in Callers :
        /\ pc[c] = "lock" /\ lock = Worker /\ pc[Worker] = "drain"
        /\ queue # <<>> /\ Len(logged) >= 1

\* C19: a thread about to log a record in the critical section has a run.
C19_RunBeforeLog ==
    \A t \in Threads : (pc[t] = "drain" /\ queue # <<>>) => run # None

\* C20: records are logged in the order they were put on the queue.  Every
\* put is of the newest record, so the order of the puts is the order of the
\* record ids: the records logged, followed by those queued, never descend.
LoggedRecords == [i \in 1..Len(logged) |-> logged[i].record]
InOrder(s) == \A i, j \in 1..Len(s) : i < j => s[i] <= s[j]
C20_FifoDelivery == InOrder(LoggedRecords \o queue)

C20_Witness ==
    \E c \in Callers :
        /\ pc[c] = "drain" /\ pc[Worker] = "lock"
        /\ Len(logged) >= 2 /\ Len(queue) >= 1

\* C12: when commit(record, force=False), called while the worker polls, has
\* returned, the record is on the queue or has been logged.
C12_ExplicitRecordKept ==
    \A c \in Callers :
        (pc[c] = "ret" /\ op[c].record # None /\ ~op[c].force /\ op[c].started) =>
            op[c].record \in (Range(queue) \cup LoggedSet)

\* C16: with a sink that may fail, on a session enabled throughout with
\* auto-committed calls only, no exception ends the worker and every record
\* is logged or still queued.
C16_SinkFailureLosesNothing ==
    AutoOnly =>
        /\ ~workerRaised
        /\ LoggedSet \cup Range(queue) = 1..calls

\* C17: when a transform raises for a record inside a flush, the flush goes
\* on with the next record: the thread stays in the loop, holding the lock,
\* and no exception leaves commit.
C17_TransformFailureIsolated ==
    [][ \A t \in Threads :
          (pc[t] = "drain" /\ run # None /\ Len(queue') < Len(queue)
              /\ logged' = logged) =>
              /\ pc'[t] = "drain"
              /\ lock' = t
              /\ workerRaised' = workerRaised
      ]_vars

\* C18: under fair scheduling, once finish() has been called the worker
\* ends, and every finish() returns; and at the step that ends the worker,
\* also after an exception, no run is left open.
AllClosed == wandb_run = None /\ \A i \in 1..Len(runs) : ~runs[i].open
C18_ShutdownTerminates ==
    /\ (finishCalls >= 1) ~> WorkerDone
    /\ \A c \in Callers : (pc[c] = "join") ~> (pc[c] = "idle")
    /\ [][ (pc[Worker] # "done" /\ pc'[Worker] = "done") => AllClosed' ]_vars

C18_Witness ==
    /\ WorkerDone /\ workerRaised /\ finishReturns >= 1
    /\ Len(runs) >= 1 /\ AllClosed

====
